---- MODULE Spec2Model ----
(***************************************************************************)
(* Model of src/metal/metal_api.cpp: the single-flight gate _task_running, *)
(* the two detached background batches (token creation, game               *)
(* initialization), the status poll loop and the API helpers they call.    *)
(*                                                                         *)
(* A slot of Tasks is one detached std::thread; pc[t] is its position in   *)
(* the lambda body.  loc[t] holds the lambda's local variables, obs[t] is  *)
(* a ghost record of what the thread did (console reports, HTTP requests)  *)
(* and of what the remote side answered, so that outputs can be compared   *)
(* with inputs.                                                            *)
(***************************************************************************)
EXTENDS Integers, Sequences, FiniteSets, TLC

\* Program constant: "while (retry_count < 60)".
MaxRetries == 60

\* Bounds of the model.
MaxTasks == 2
MaxCalls == 3
MaxCompanies == 2
MaxTokens == 2
\* Threads that call Initialize, Shutdown and the request functions.
MaxThreads == 2
\* A non-pending status reply is drawn only on attempts 1..EarlyAttempts and
\* on the last LateAttempts attempts; in between the remote side says pending.
EarlyAttempts == 3
LateAttempts == 1

Tasks == 1..MaxTasks
Threads == 1..MaxThreads
Companies == 1..MaxCompanies

(***************************************************************************)
(* HTTP bodies.  NoBody is the empty string MakeHttpRequest returns on any *)
(* transport failure; Garbage is a non-empty text rapidjson cannot parse;  *)
(* every other body is the parsed document.                                *)
(***************************************************************************)
Str(s) == [t |-> "str", s |-> s]
Num(n) == [t |-> "num", n |-> n]
Bool(b) == [t |-> "bool", b |-> b]
Obj(m) == [t |-> "obj", m |-> m]
Arr(a) == [t |-> "arr", a |-> a]
NoBody == [t |-> "empty"]
Garbage == [t |-> "garbage"]
NoneYet == [t |-> "none"]

IsObject(v) == v.t = "obj"
IsString(v) == v.t = "str"
IsArray(v) == v.t = "arr"
IsBool(v) == v.t = "bool"
IsNumber(v) == v.t = "num"
HasMember(v, k) == k \in DOMAIN v.m

\* The outcome of an unchecked rapidjson access (failed RAPIDJSON_ASSERT, or a
\* std::string built from a null pointer): the process is terminated.
Fault == "<fault>"

PendingBody == Obj([status |-> Str("pending")])
SuccessBody ==
    Obj([status |-> Str("success"),
         data |-> Obj([name |-> Str("Company #0"), address |-> Str("0xA1")])])
FailedBody == Obj([status |-> Str("failed")])
UnknownTagBody == Obj([status |-> Str("queued")])
SuccessNoDataBody == Obj([status |-> Str("success")])
NoStatusBody == Obj([error |-> Str("not found")])
NonStringStatusBody == Obj([status |-> Num(5)])

StatusBodies ==
    {NoBody, Garbage, PendingBody, SuccessBody, FailedBody, UnknownTagBody,
     SuccessNoDataBody, NoStatusBody, NonStringStatusBody}

CreateTokenBodies ==
    {NoBody, Garbage, Obj([jobId |-> Str("j1")]), Obj([jobId |-> Num(7)]),
     Obj([error |-> Str("bad symbol")]), Obj(<<>>), Arr(<<>>)}

\* What a client calling CreateToken directly can be answered.
CreateTokenReplies ==
    CreateTokenBodies \cup {Obj([jobId |-> Str("abc123")]), Obj([jobId |-> Str("")])}

Token(addr, sym) ==
    Obj([id |-> Str(sym), address |-> Str(addr), name |-> Str(sym),
         symbol |-> Str(sym), totalSupply |-> Num(1000),
         startingAppSupply |-> Num(100), remainingAppSupply |-> Num(100),
         merchantSupply |-> Num(50), merchantAddress |-> Str("0xM"),
         price |-> Num(1)])

TokenArray(n) == Arr([i \in 1..n |-> Token(IF i = 1 THEN "0xA1" ELSE "0xA2", "TTD")])

\* An array entry that lacks one of the fields the scan reads.
TokenWithout(addr, sym, field) ==
    Obj([k \in (DOMAIN Token(addr, sym).m) \ {field} |-> Token(addr, sym).m[k]])

\* An array entry of another merchant (the filter is the request's query).
ForeignToken == Obj([Token("0xF", "FRN").m EXCEPT !.merchantAddress = Str("0xOther")])

\* Three entries, the second without "name".
MalformedNameArray ==
    Arr(<<Token("0xA1", "TTD"), TokenWithout("0xB", "BAD", "name"), Token("0xA2", "TTD")>>)

\* Two entries, the first without "price".
MalformedPriceArray == Arr(<<TokenWithout("0xB", "BAD", "price"), Token("0xA2", "TTD")>>)

ForeignArray == Arr(<<Token("0xA1", "TTD"), ForeignToken>>)

TokenListBodies ==
    {NoBody, Garbage, Obj([error |-> Str("denied")]),
     MalformedNameArray, MalformedPriceArray, ForeignArray}
        \cup {TokenArray(n) : n \in 0..MaxTokens}

LiquidityBodies ==
    {NoBody, Garbage, Obj([success |-> Bool(TRUE)]), Obj([success |-> Bool(FALSE)]),
     Obj([error |-> Str("no funds")]), Obj([success |-> Str("yes")]), Arr(<<>>)}

(***************************************************************************)
(* The API helpers, as functions of the body MakeHttpRequest returned.     *)
(***************************************************************************)

\* Variant: the jobId member is read without the IsString test.
CreateTokenNoTypeTest(response) ==
    IF response = NoBody THEN {""}
    ELSE IF response = Garbage THEN {""}
    ELSE IF ~IsObject(response) THEN {Fault, ""}
    ELSE IF HasMember(response, "jobId")
         THEN (IF IsString(response.m.jobId) THEN {response.m.jobId.s} ELSE {Fault})
    ELSE {""}

\* CreateToken: the set of results the call can produce for a response.
\* HasMember on a document that is not an object is an unchecked access: a
\* build with assertions terminates, a build without them scans the (empty)
\* member range and finds nothing.
CreateToken(response) ==
    IF response = NoBody THEN {""}
    ELSE IF response = Garbage THEN {""}
    ELSE IF ~IsObject(response) THEN {Fault, ""}
    ELSE IF HasMember(response, "jobId") /\ IsString(response.m.jobId)
         THEN {response.m.jobId.s}
    ELSE {""}

\* GetTokenCreationStatus returns the body of the request unchanged.
GetTokenCreationStatus(body) == body

\* status_json["status"].GetString() on the parsed status document.
StatusTag(doc) ==
    IF IsObject(doc) /\ HasMember(doc, "status") /\ IsString(doc.m.status)
    THEN doc.m.status.s
    ELSE Fault

\* status_json["data"]["name"].GetString(), ["data"]["address"].GetString():
\* the two fields, or ok = FALSE when an access is unchecked.
DataFields(doc) ==
    IF /\ HasMember(doc, "data") /\ IsObject(doc.m.data)
       /\ HasMember(doc.m.data, "name") /\ IsString(doc.m.data.m.name)
       /\ HasMember(doc.m.data, "address") /\ IsString(doc.m.data.m.address)
    THEN [ok |-> TRUE, name |-> doc.m.data.m.name.s,
          address |-> doc.m.data.m.address.s]
    ELSE [ok |-> FALSE]

\* One iteration of the poll loop, from the status text to the branch taken.
\* Variant: an empty status is treated as still pending (retried).
PollOutcomeRetryTransport(status) ==
    IF status = NoBody THEN "pending"
    ELSE IF StatusTag(status) = Fault THEN Fault
    ELSE IF StatusTag(status) = "success"
         THEN (IF DataFields(status).ok THEN "success" ELSE Fault)
    ELSE IF StatusTag(status) = "pending" THEN "pending"
    ELSE "unexpected"

\* Variant: a status other than success is polled again.
PollOutcomeRetryUnexpected(status) ==
    IF status = NoBody THEN "api_failed"
    ELSE IF StatusTag(status) = Fault THEN Fault
    ELSE IF StatusTag(status) = "success"
         THEN (IF DataFields(status).ok THEN "success" ELSE Fault)
    ELSE "pending"

\* Variant: the "success" tag is not recognised.
PollOutcomeSuccessUnexpected(status) ==
    IF status = NoBody THEN "api_failed"
    ELSE IF StatusTag(status) = Fault THEN Fault
    ELSE IF StatusTag(status) = "pending" THEN "pending"
    ELSE "unexpected"

PollOutcome(status) ==
    IF status = NoBody THEN "api_failed"
    ELSE IF StatusTag(status) = Fault THEN Fault
    ELSE IF StatusTag(status) = "success"
         THEN (IF DataFields(status).ok THEN "success" ELSE Fault)
    ELSE IF StatusTag(status) = "pending" THEN "pending"
    ELSE "unexpected"

\* Variant: the loop is left after its first pass.
LoopAgainNever(retry_count) == FALSE

\* Variant: "<=" in the loop condition.
LoopAgainOneMore(retry_count) == retry_count <= MaxRetries

\* "} while (retry_count < 60);"
LoopAgain(retry_count) == retry_count < MaxRetries

\* "if (!success) { if (retry_count >= 60) {" ... "Gave up waiting".
GaveUp(success, retry_count) == ~success /\ retry_count >= MaxRetries

\* A call that did not return: an unchecked access ended the process.
Faulted == [fault |-> TRUE]

\* The fields of an array entry read with GetString() and assigned to a
\* std::string, and those read with GetUint64() / GetDouble().
StringFields == {"id", "address", "name", "symbol", "merchantAddress"}
NumberFields ==
    {"totalSupply", "startingAppSupply", "remainingAppSupply", "merchantSupply", "price"}

StringsOk(e) ==
    IsObject(e) /\ \A f \in StringFields : HasMember(e, f) /\ IsString(e.m[f])
NumbersOk(e) ==
    IsObject(e) /\ \A f \in NumberFields : HasMember(e, f) /\ IsNumber(e.m[f])

TokenList(tokens) == [fault |-> FALSE, tokens |-> tokens]

\* Variant: the array is scanned without the IsArray test.
GetMerchantTokensNoArrayTest(response) ==
    IF response = NoBody THEN {TokenList(<<>>)}
    ELSE IF response = Garbage THEN {TokenList(<<>>)}
    ELSE IF ~IsArray(response) THEN {Faulted}
    ELSE {TokenList([i \in 1..Len(response.a) |-> response.a[i].m.address.s])}

\* GetMerchantTokens: the set of results the call can produce for a response;
\* a result is the list of the addresses of the TokenInfo records returned.
\* rapidjson does not throw: the catch block of the scan is never entered.  A
\* missing or non-string text field is a failed assertion or the assignment of
\* a null pointer to a std::string; a missing or non-numeric number field is a
\* failed assertion, or reads as a default in a build without assertions.
GetMerchantTokens(response) ==
    IF response = NoBody THEN {TokenList(<<>>)}
    ELSE IF response = Garbage THEN {TokenList(<<>>)}
    ELSE IF ~IsArray(response) THEN {TokenList(<<>>)}
    ELSE LET a == response.a
             addresses == [i \in 1..Len(a) |-> a[i].m.address.s]
         IN
         IF \A i \in 1..Len(a) : StringsOk(a[i]) /\ NumbersOk(a[i])
         THEN {TokenList(addresses)}
         ELSE IF \A i \in 1..Len(a) : StringsOk(a[i])
         THEN {Faulted, TokenList(addresses)}
         ELSE {Faulted}

Returned(b) == [fault |-> FALSE, ok |-> b]

\* The test "HasMember("success") && ["success"].GetBool()" on a document:
\* HasMember on a document that is not an object and GetBool on a value that
\* is not a boolean are unchecked accesses (a build with assertions
\* terminates, a build without them reads false).
SuccessFlag(doc) ==
    IF ~IsObject(doc) THEN {Faulted, Returned(FALSE)}
    ELSE IF ~HasMember(doc, "success") THEN {Returned(FALSE)}
    ELSE IF IsBool(doc.m.success) THEN {Returned(doc.m.success.b)}
    ELSE {Faulted, Returned(FALSE)}

\* CreateLiquidity: the set of results the call can produce for a response.
CreateLiquidity(response) ==
    IF response = NoBody THEN {Returned(FALSE)}
    ELSE IF response = Garbage THEN {Returned(FALSE)}
    ELSE SuccessFlag(response)

\* CreateLiquidityPool: res is the curl result; the body is parsed without a
\* look at the parse error, so an unparsable body is a document that is not
\* an object.
CreateLiquidityPool(res_ok, response) ==
    IF ~res_ok THEN {Returned(FALSE)}
    ELSE IF response = NoBody \/ response = Garbage THEN {Faulted, Returned(FALSE)}
    ELSE SuccessFlag(response)

\* Initialize: idempotent; ok is the outcome of curl_global_init.
Initialize(init, ok) == init \/ ok

\* MakeHttpRequest: initialize on demand, then perform the request; body is
\* what the transport delivers (NoBody on any curl failure).
MakeHttpRequest(init, ok, body) ==
    IF ~init /\ ~Initialize(init, ok)
    THEN [initialized |-> FALSE, response |-> NoBody]
    ELSE [initialized |-> TRUE, response |-> body]

(***************************************************************************)
(* State.                                                                  *)
(***************************************************************************)
VARIABLES
    task_running,   \* std::atomic<bool> MetalAPI::_task_running
    pc,             \* pc[t]: position of background thread t in its lambda
    kind,           \* kind[t]: "token" or "game", the lambda thread t runs
    loc,            \* loc[t]: the lambda's local variables
    obs,            \* obs[t]: ghost record of thread t's batch
    calls,          \* ghost: number of Start* calls made so far
    refused,        \* ghost: how many of them returned false
    lastRet,        \* ghost: the value the latest Start* call returned
    initialized,    \* bool MetalAPI::_initialized
    api,            \* ghost: the latest call made outside the batches
    lib             \* the threads inside Initialize, Shutdown and a request,
                    \* _api_mutex, and the state of the HTTP library

vars == <<task_running, pc, kind, loc, obs, calls, refused, lastRet, initialized, api, lib>>

\* A call made outside the batches: the function, the body it got from the
\* remote side, whether it returned, and what it returned.
ApiCall(op, body, fault, ret) == [op |-> op, body |-> body, fault |-> fault, ret |-> ret]
NoCall == ApiCall("none", NoneYet, FALSE, [n |-> 0])

\* No thread inside a function, the mutex free, the library not initialized.
InitLib ==
    [pc |-> [th \in Threads |-> "idle"],     \* position of thread th
     op |-> [th \in Threads |-> "none"],     \* the public function th is in
     ret |-> [th \in Threads |-> FALSE],     \* what th's latest Initialize returned
     mutex |-> 0,                            \* holder of _api_mutex, 0 when free
     global |-> 0]                           \* curl_global_init calls not yet cleaned up

InitLoc ==
    [company_count |-> 0, processed |-> 0, job_id |-> "", retry_count |-> 0,
     success |-> FALSE, tokens |-> <<>>]

InitObs ==
    [reports |-> <<>>,                        \* console outcome lines, in order
     submitted |-> <<>>,                      \* companies CreateToken was called for
     handle |-> [c \in Companies |-> ""],     \* job id CreateToken returned
     fetches |-> [c \in Companies |-> 0],     \* GetTokenCreationStatus calls
     sleeps |-> [c \in Companies |-> 0],      \* one-second sleeps
     npend |-> [c \in Companies |-> 0],       \* pending replies before the first other
     term |-> [c \in Companies |-> NoneYet],  \* first reply that was not pending
     list |-> NoneYet,                        \* the body of the token list response
     liquidity |-> <<>>,                      \* CreateLiquidity results, in order
     delays |-> 0,                            \* 500 ms sleeps of the token loop
     notice |-> "none",                       \* the console line of an early return
     unpause |-> 0,                           \* Command<CMD_PAUSE>::Post calls
     http |-> 0,                              \* MakeHttpRequest calls
     resets |-> 0]                            \* writes of false to _task_running

Init ==
    /\ task_running = FALSE
    /\ pc = [t \in Tasks |-> "idle"]
    /\ kind = [t \in Tasks |-> "none"]
    /\ loc = [t \in Tasks |-> InitLoc]
    /\ obs = [t \in Tasks |-> InitObs]
    /\ calls = 0
    /\ refused = 0
    /\ lastRet = FALSE
    /\ initialized = FALSE
    /\ api = NoCall
    /\ lib = InitLib

\* curl_global_init can fail only when it is attempted.
InitOutcomes == IF initialized THEN {TRUE} ELSE BOOLEAN

\* A thread that has not been launched, or has returned from its lambda.
FreeSlot(t) == pc[t] \in {"idle", "done"}

\* An unchecked access ended the process: no thread takes another step.
Terminated == api.fault \/ \E t \in Tasks : pc[t] = "crashed"

\* Variant: a plain store, the old value is not looked at.
ExchangeStoreOnly(flag, desired) == [old |-> FALSE, new |-> desired]

\* Variant: the flag is flipped instead of set.
ExchangeToggle(flag, desired) == [old |-> flag, new |-> ~flag]

\* _task_running.exchange(true): the value read and the value left behind.
Exchange(flag, desired) == [old |-> flag, new |-> desired]

\* Variant: the flag is left set.
ReleaseForgotten == TRUE

\* "_task_running = false;" at the end of a lambda and on its early return.
Release == FALSE

\* Variant: "break;" out of the company loop.
OnEmptyHandleBreak == "exit"

\* "continue;" after CreateToken returned the empty job id.
OnEmptyHandle == "next"

Report(t, c, o) == [obs EXCEPT ![t].reports = Append(@, [c |-> c, o |-> o])]

(***************************************************************************)
(* StartTokenCreationTask / StartGameInitializationTask (k is the lambda). *)
(***************************************************************************)
StartTask(k, limit) ==
    /\ ~Terminated
    /\ calls < limit
    /\ calls' = calls + 1
    /\ UNCHANGED <<initialized, api, lib>>
    /\ LET x == Exchange(task_running, TRUE) IN
       /\ task_running' = x.new
       /\ IF x.old
          THEN /\ lastRet' = FALSE
               /\ refused' = refused + 1
               /\ UNCHANGED <<pc, kind, loc, obs>>
          ELSE /\ \E t \in Tasks :
                    /\ FreeSlot(t)
                    /\ \A u \in 1..(t - 1) : ~FreeSlot(u)
                    /\ pc' = [pc EXCEPT ![t] = "start"]
                    /\ kind' = [kind EXCEPT ![t] = k]
                    /\ loc' = [loc EXCEPT ![t] = InitLoc]
                    /\ obs' = [obs EXCEPT ![t] = InitObs]
               /\ lastRet' = TRUE
               /\ UNCHANGED refused

StartTokenCreationTask == StartTask("token", MaxCalls)

StartGameInitializationTask == StartTask("game", MaxCalls)

\* Variant: the query does not read the flag.
IsTaskRunningNever == FALSE

\* IsTaskRunning
IsTaskRunning == task_running

(***************************************************************************)
(* The token creation lambda.                                              *)
(***************************************************************************)

\* Variant: the count is not tested.
NoCompaniesNever(company_count) == FALSE

\* "if (company_count == 0)"
NoCompanies(company_count) == company_count = 0

\* Count the companies; return early when there are none.  The enumeration is
\* order-stable and repeatable, so the processing loop sees the same companies.
TokenCount(t, counts) ==
    /\ ~Terminated
    /\ pc[t] = "start" /\ kind[t] = "token"
    /\ \E n \in counts :
        /\ loc' = [loc EXCEPT ![t].company_count = n]
        /\ IF NoCompanies(n)
           THEN /\ task_running' = Release
                /\ obs' = [obs EXCEPT ![t].resets = @ + 1,
                                      ![t].notice = "no_companies"]
                /\ pc' = [pc EXCEPT ![t] = "done"]
           ELSE /\ pc' = [pc EXCEPT ![t] = "next"]
                /\ UNCHANGED <<task_running, obs>>
    /\ UNCHANGED <<kind, calls, refused, lastRet, initialized, api, lib>>

\* Head of the company loop: the next company, CreateToken, the job id test.
TokenNext(t) ==
    /\ ~Terminated
    /\ pc[t] = "next" /\ kind[t] = "token"
    /\ loc[t].processed < loc[t].company_count
    /\ LET c == loc[t].processed + 1 IN
       \E ok \in InitOutcomes : \E body \in CreateTokenBodies :
          LET r == MakeHttpRequest(initialized, ok, body) IN
          /\ initialized' = r.initialized
          /\ \E job_id \in CreateToken(r.response) :
              LET o1 == [obs EXCEPT ![t].submitted = Append(@, c),
                                    ![t].http = @ + 1,
                                    ![t].handle[c] = IF job_id = Fault THEN "" ELSE job_id]
              IN
              IF job_id = Fault
              THEN /\ pc' = [pc EXCEPT ![t] = "crashed"]
                   /\ loc' = [loc EXCEPT ![t].processed = c]
                   /\ obs' = o1
              ELSE IF job_id = ""
              THEN /\ pc' = [pc EXCEPT ![t] = OnEmptyHandle]
                   /\ loc' = [loc EXCEPT ![t].processed = c, ![t].job_id = job_id]
                   /\ obs' = [o1 EXCEPT ![t].reports = Append(@, [c |-> c, o |-> "failure"])]
              ELSE /\ pc' = [pc EXCEPT ![t] = "poll"]
                   /\ loc' = [loc EXCEPT ![t].processed = c, ![t].job_id = job_id,
                                         ![t].retry_count = 0, ![t].success = FALSE]
                   /\ obs' = o1
    /\ UNCHANGED <<task_running, kind, calls, refused, lastRet, api, lib>>

\* One pass of the do-while body up to the sleep: count the attempt, fetch the
\* status, decode it, branch.  A status reply other than pending is drawn only
\* on the first `early` and the last `late` attempts.
TokenPoll(t, early, late) ==
    /\ ~Terminated
    /\ pc[t] = "poll" /\ kind[t] = "token"
    /\ LET c == loc[t].processed
           attempt == loc[t].retry_count + 1
           bodies == IF attempt <= early \/ attempt > MaxRetries - late
                     THEN StatusBodies ELSE {PendingBody}
       IN
       \E ok \in InitOutcomes : \E reply \in bodies :
          LET r == MakeHttpRequest(initialized, ok, reply)
              body == r.response
              status == GetTokenCreationStatus(body)
              out == PollOutcome(status)
              first == obs[t].term[c] = NoneYet
              o1 == [obs EXCEPT
                        ![t].fetches[c] = @ + 1,
                        ![t].http = @ + 1,
                        ![t].npend[c] = IF first /\ body = PendingBody THEN @ + 1 ELSE @,
                        ![t].term[c] = IF first /\ body # PendingBody THEN body ELSE @]
          IN
          /\ initialized' = r.initialized
          /\ loc' = [loc EXCEPT ![t].retry_count = attempt,
                                ![t].success = (out = "success")]
          /\ IF out = Fault
             THEN /\ pc' = [pc EXCEPT ![t] = "crashed"]
                  /\ obs' = o1
             ELSE IF out = "api_failed" \/ out = "unexpected"
             THEN /\ pc' = [pc EXCEPT ![t] = "after"]
                  /\ obs' = [o1 EXCEPT ![t].reports = Append(@, [c |-> c, o |-> "failure"])]
             ELSE IF out = "success"
             THEN /\ pc' = [pc EXCEPT ![t] = "after"]
                  /\ obs' = [o1 EXCEPT ![t].reports = Append(@, [c |-> c, o |-> "success"])]
             ELSE /\ pc' = [pc EXCEPT ![t] = "sleep"]
                  /\ obs' = o1
    /\ UNCHANGED <<task_running, kind, calls, refused, lastRet, api, lib>>

\* The one-second sleep after a pending status, then the loop condition.
TokenSleep(t) ==
    /\ ~Terminated
    /\ pc[t] = "sleep" /\ kind[t] = "token"
    /\ obs' = [obs EXCEPT ![t].sleeps[loc[t].processed] = @ + 1]
    /\ pc' = [pc EXCEPT ![t] = IF LoopAgain(loc[t].retry_count) THEN "poll" ELSE "after"]
    /\ UNCHANGED <<task_running, kind, loc, calls, refused, lastRet, initialized, api, lib>>

\* After the poll loop: the gave-up report.
TokenAfter(t) ==
    /\ ~Terminated
    /\ pc[t] = "after" /\ kind[t] = "token"
    /\ obs' = IF GaveUp(loc[t].success, loc[t].retry_count)
              THEN Report(t, loc[t].processed, "gaveup")
              ELSE obs
    /\ pc' = [pc EXCEPT ![t] = "next"]
    /\ UNCHANGED <<task_running, kind, loc, calls, refused, lastRet, initialized, api, lib>>

\* After the company loop: mark the task as completed.
TokenFinish(t) ==
    /\ ~Terminated
    /\ kind[t] = "token"
    /\ \/ pc[t] = "exit"
       \/ pc[t] = "next" /\ loc[t].processed = loc[t].company_count
    /\ task_running' = Release
    /\ obs' = [obs EXCEPT ![t].resets = @ + 1]
    /\ pc' = [pc EXCEPT ![t] = "done"]
    /\ UNCHANGED <<kind, loc, calls, refused, lastRet, initialized, api, lib>>

(***************************************************************************)
(* The game initialization lambda.                                         *)
(***************************************************************************)

\* Variant: the empty list is not tested for.
NothingToDoNever(tokens) == FALSE

\* "if (tokens.empty())"
NothingToDo(tokens) == tokens = <<>>

\* Variant: the loop stops one token early.
MoreTokensButLast(processed, tokens) == processed < Len(tokens) - 1

\* "for (const auto &token : tokens)": a token is left to process.
MoreTokens(processed, tokens) == processed < Len(tokens)

\* Variant: the next token is taken without a delay.
AfterLiquidityNoDelay == "liq"

\* After every CreateLiquidity call the loop body sleeps for 500 ms.
AfterLiquidity == "liqsleep"

\* Fetch the merchant's tokens; return early when the list is empty.
GameFetch(t) ==
    /\ ~Terminated
    /\ pc[t] = "start" /\ kind[t] = "game"
    /\ \E ok \in InitOutcomes : \E body \in TokenListBodies :
        LET r == MakeHttpRequest(initialized, ok, body) IN
        /\ initialized' = r.initialized
        /\ \E result \in GetMerchantTokens(r.response) :
            IF result.fault
            THEN /\ pc' = [pc EXCEPT ![t] = "crashed"]
                 /\ obs' = [obs EXCEPT ![t].http = @ + 1, ![t].list = r.response]
                 /\ UNCHANGED <<task_running, loc>>
            ELSE /\ loc' = [loc EXCEPT ![t].tokens = result.tokens]
                 /\ IF NothingToDo(result.tokens)
                    THEN /\ task_running' = Release
                         /\ obs' = [obs EXCEPT ![t].http = @ + 1, ![t].resets = @ + 1,
                                               ![t].list = r.response,
                                               ![t].notice = "no_tokens"]
                         /\ pc' = [pc EXCEPT ![t] = "done"]
                    ELSE /\ obs' = [obs EXCEPT ![t].http = @ + 1, ![t].list = r.response]
                         /\ pc' = [pc EXCEPT ![t] = "liq"]
                         /\ UNCHANGED task_running
    /\ UNCHANGED <<kind, calls, refused, lastRet, api, lib>>

\* CreateLiquidity for the next token of the list.
GameLiquidity(t) ==
    /\ ~Terminated
    /\ pc[t] = "liq" /\ kind[t] = "game"
    /\ MoreTokens(loc[t].processed, loc[t].tokens)
    /\ LET i == loc[t].processed + 1 IN
       \E ok \in InitOutcomes : \E body \in LiquidityBodies :
          LET r == MakeHttpRequest(initialized, ok, body) IN
          /\ initialized' = r.initialized
          /\ loc' = [loc EXCEPT ![t].processed = i]
          /\ \E result \in CreateLiquidity(r.response) :
              IF result.fault
              THEN /\ pc' = [pc EXCEPT ![t] = "crashed"]
                   /\ obs' = [obs EXCEPT ![t].http = @ + 1]
              ELSE /\ pc' = [pc EXCEPT ![t] = AfterLiquidity]
                   /\ obs' = [obs EXCEPT
                                 ![t].http = @ + 1,
                                 ![t].liquidity = Append(@, [address |-> loc[t].tokens[i],
                                                              ok |-> result.ok])]
    /\ UNCHANGED <<task_running, kind, calls, refused, lastRet, api, lib>>

\* The 500 ms sleep between two tokens.
GameSleep(t) ==
    /\ ~Terminated
    /\ pc[t] = "liqsleep" /\ kind[t] = "game"
    /\ obs' = [obs EXCEPT ![t].delays = @ + 1]
    /\ pc' = [pc EXCEPT ![t] = "liq"]
    /\ UNCHANGED <<task_running, kind, loc, calls, refused, lastRet, initialized, api, lib>>

\* Command<CMD_PAUSE>::Post(PauseMode::Normal, false) after the token loop.
GameUnpause(t) ==
    /\ ~Terminated
    /\ pc[t] = "liq" /\ kind[t] = "game"
    /\ ~MoreTokens(loc[t].processed, loc[t].tokens)
    /\ obs' = [obs EXCEPT ![t].unpause = @ + 1]
    /\ pc' = [pc EXCEPT ![t] = "unpaused"]
    /\ UNCHANGED <<task_running, kind, loc, calls, refused, lastRet, initialized, api, lib>>

\* Mark the task as completed.
GameFinish(t) ==
    /\ ~Terminated
    /\ pc[t] = "unpaused" /\ kind[t] = "game"
    /\ task_running' = Release
    /\ obs' = [obs EXCEPT ![t].resets = @ + 1]
    /\ pc' = [pc EXCEPT ![t] = "done"]
    /\ UNCHANGED <<kind, loc, calls, refused, lastRet, initialized, api, lib>>

(***************************************************************************)
(* Calls made outside the batches: the console commands and any other      *)
(* caller of the public functions.                                         *)
(***************************************************************************)
taskvars == <<task_running, pc, kind, loc, obs, calls, refused, lastRet>>

\* MetalAPI::Initialize()
CallInitialize ==
    /\ ~Terminated
    /\ \E ok \in InitOutcomes :
        /\ initialized' = Initialize(initialized, ok)
        /\ api' = ApiCall("Initialize", NoneYet, FALSE, [b |-> Initialize(initialized, ok)])
    /\ UNCHANGED <<taskvars, lib>>

\* MetalAPI::Shutdown()
Shutdown ==
    /\ ~Terminated
    /\ initialized' = FALSE
    /\ api' = ApiCall("Shutdown", NoneYet, FALSE, [n |-> 0])
    /\ UNCHANGED <<taskvars, lib>>

\* MetalAPI::IsTaskRunning()
CallIsTaskRunning ==
    /\ ~Terminated
    /\ api' = ApiCall("IsTaskRunning", NoneYet, FALSE, [b |-> IsTaskRunning])
    /\ UNCHANGED <<taskvars, initialized, lib>>

\* MetalAPI::GetMerchantTokens(merchant_address)
CallGetMerchantTokens ==
    /\ ~Terminated
    /\ \E ok \in InitOutcomes : \E body \in TokenListBodies :
        LET r == MakeHttpRequest(initialized, ok, body) IN
        /\ initialized' = r.initialized
        /\ \E result \in GetMerchantTokens(r.response) :
            api' = ApiCall("GetMerchantTokens", r.response, result.fault,
                           [q |-> IF result.fault THEN <<>> ELSE result.tokens])
    /\ UNCHANGED <<taskvars, lib>>

\* MetalAPI::CreateToken(name, symbol, merchant_address)
CallCreateToken ==
    /\ ~Terminated
    /\ \E ok \in InitOutcomes : \E body \in CreateTokenReplies :
        LET r == MakeHttpRequest(initialized, ok, body) IN
        /\ initialized' = r.initialized
        /\ \E job_id \in CreateToken(r.response) :
            api' = ApiCall("CreateToken", r.response, job_id = Fault,
                           [s |-> IF job_id = Fault THEN "" ELSE job_id])
    /\ UNCHANGED <<taskvars, lib>>

\* MetalAPI::GetTokenCreationStatus(job_id)
CallGetTokenCreationStatus ==
    /\ ~Terminated
    /\ \E ok \in InitOutcomes : \E body \in StatusBodies :
        LET r == MakeHttpRequest(initialized, ok, body) IN
        /\ initialized' = r.initialized
        /\ api' = ApiCall("GetTokenCreationStatus", r.response, FALSE,
                          [d |-> GetTokenCreationStatus(r.response)])
    /\ UNCHANGED <<taskvars, lib>>

\* MetalAPI::CreateLiquidity(token_address)
CallCreateLiquidity ==
    /\ ~Terminated
    /\ \E ok \in InitOutcomes : \E body \in LiquidityBodies :
        LET r == MakeHttpRequest(initialized, ok, body) IN
        /\ initialized' = r.initialized
        /\ \E result \in CreateLiquidity(r.response) :
            api' = ApiCall("CreateLiquidity", r.response, result.fault,
                           [b |-> IF result.fault THEN FALSE ELSE result.ok])
    /\ UNCHANGED <<taskvars, lib>>

\* MetalAPI::CreateLiquidityPool(token_address): its own curl handle, and no
\* look at _initialized.
CallCreateLiquidityPool ==
    /\ ~Terminated
    /\ \E res_ok \in BOOLEAN : \E body \in LiquidityBodies :
        \E result \in CreateLiquidityPool(res_ok, body) :
            api' = ApiCall("CreateLiquidityPool", IF res_ok THEN body ELSE NoneYet,
                           result.fault, [b |-> IF result.fault THEN FALSE ELSE result.ok])
    /\ UNCHANGED <<taskvars, initialized, lib>>

(***************************************************************************)
(* Initialize, Shutdown, MakeHttpRequest and CreateLiquidityPool statement *)
(* by statement, on several threads (the caller of the public functions,   *)
(* the background thread).                                                 *)
(***************************************************************************)
coarsevars == <<task_running, pc, kind, loc, obs, calls, refused, lastRet, api>>

Operations == {"Initialize", "Shutdown", "MakeHttpRequest", "CreateLiquidityPool"}

Entry(op) ==
    IF op = "Initialize" THEN "init_lock"
    ELSE IF op = "Shutdown" THEN "shut_lock"
    ELSE IF op = "MakeHttpRequest" THEN "http_check"
    ELSE "pool_handle"

\* Variant: the lock is taken whether or not it is held.
MutexFreeAlways(mutex) == TRUE

\* std::lock_guard<std::mutex> lock(_api_mutex) can be constructed.
MutexFree(mutex) == mutex = 0

\* Thread th enters a public function.
Begin(th) ==
    /\ lib.pc[th] = "idle"
    /\ \E op \in Operations :
        lib' = [lib EXCEPT !.pc[th] = Entry(op), !.op[th] = op]
    /\ UNCHANGED <<coarsevars, initialized>>

\* Where th continues when its Initialize returns r with the lock released:
\* in MakeHttpRequest at curl_easy_init, or back at the caller.
AfterInitialize(th, r) ==
    [lib EXCEPT !.pc[th] = IF lib.op[th] = "MakeHttpRequest" /\ r THEN "http_handle"
                           ELSE "idle",
                !.ret[th] = r,
                !.mutex = 0]

InitializeLock(th) ==
    /\ lib.pc[th] = "init_lock" /\ MutexFree(lib.mutex)
    /\ lib' = [lib EXCEPT !.pc[th] = "init_check", !.mutex = th]
    /\ UNCHANGED <<coarsevars, initialized>>

\* "if (_initialized) return true;"
InitializeCheck(th) ==
    /\ lib.pc[th] = "init_check"
    /\ lib' = IF initialized THEN AfterInitialize(th, TRUE)
              ELSE [lib EXCEPT !.pc[th] = "init_global"]
    /\ UNCHANGED <<coarsevars, initialized>>

\* curl_global_init, "return false" when it fails.
InitializeGlobal(th) ==
    /\ lib.pc[th] = "init_global"
    /\ \E ok \in BOOLEAN :
        lib' = IF ok THEN [lib EXCEPT !.pc[th] = "init_set", !.global = @ + 1]
               ELSE AfterInitialize(th, FALSE)
    /\ UNCHANGED <<coarsevars, initialized>>

\* "_initialized = true; return true;"
InitializeSet(th) ==
    /\ lib.pc[th] = "init_set"
    /\ initialized' = TRUE
    /\ lib' = AfterInitialize(th, TRUE)
    /\ UNCHANGED coarsevars

ShutdownLock(th) ==
    /\ lib.pc[th] = "shut_lock" /\ MutexFree(lib.mutex)
    /\ lib' = [lib EXCEPT !.pc[th] = "shut_check", !.mutex = th]
    /\ UNCHANGED <<coarsevars, initialized>>

\* "if (!_initialized) return;"
ShutdownCheck(th) ==
    /\ lib.pc[th] = "shut_check"
    /\ lib' = IF initialized THEN [lib EXCEPT !.pc[th] = "shut_cleanup"]
              ELSE [lib EXCEPT !.pc[th] = "idle", !.mutex = 0]
    /\ UNCHANGED <<coarsevars, initialized>>

\* curl_global_cleanup
ShutdownCleanup(th) ==
    /\ lib.pc[th] = "shut_cleanup"
    /\ lib' = [lib EXCEPT !.pc[th] = "shut_set", !.global = @ - 1]
    /\ UNCHANGED <<coarsevars, initialized>>

\* "_initialized = false;" and the return.
ShutdownSet(th) ==
    /\ lib.pc[th] = "shut_set"
    /\ initialized' = FALSE
    /\ lib' = [lib EXCEPT !.pc[th] = "idle", !.mutex = 0]
    /\ UNCHANGED coarsevars

\* MakeHttpRequest: "if (!_initialized && !Initialize()) return "";"
HttpCheck(th) ==
    /\ lib.pc[th] = "http_check"
    /\ lib' = [lib EXCEPT !.pc[th] = IF initialized THEN "http_handle" ELSE "init_lock"]
    /\ UNCHANGED <<coarsevars, initialized>>

\* curl_easy_init: the request handle, or "return "";" without one.
HttpHandle(th) ==
    /\ lib.pc[th] = "http_handle"
    /\ \E ok \in BOOLEAN :
        lib' = [lib EXCEPT !.pc[th] = IF ok THEN "http_perform" ELSE "idle"]
    /\ UNCHANGED <<coarsevars, initialized>>

\* curl_easy_perform has returned; the handle is cleaned up.
HttpPerform(th) ==
    /\ lib.pc[th] = "http_perform"
    /\ lib' = [lib EXCEPT !.pc[th] = "idle"]
    /\ UNCHANGED <<coarsevars, initialized>>

\* CreateLiquidityPool: curl_easy_init with no look at _initialized.
PoolHandle(th) ==
    /\ lib.pc[th] = "pool_handle"
    /\ \E ok \in BOOLEAN :
        lib' = [lib EXCEPT !.pc[th] = IF ok THEN "pool_perform" ELSE "idle"]
    /\ UNCHANGED <<coarsevars, initialized>>

\* CreateLiquidityPool: curl_easy_perform has returned.
PoolPerform(th) ==
    /\ lib.pc[th] = "pool_perform"
    /\ lib' = [lib EXCEPT !.pc[th] = "idle"]
    /\ UNCHANGED <<coarsevars, initialized>>

(***************************************************************************)
(* Specifications.                                                         *)
(***************************************************************************)

\* Any number of callers of both Start* functions, the threads they launch.
Next ==
    \/ StartTokenCreationTask
    \/ StartGameInitializationTask
    \/ \E t \in Tasks : TokenCount(t, 0..MaxCompanies)
    \/ \E t \in Tasks : TokenNext(t)
    \/ \E t \in Tasks : TokenPoll(t, EarlyAttempts, LateAttempts)
    \/ \E t \in Tasks : TokenSleep(t)
    \/ \E t \in Tasks : TokenAfter(t)
    \/ \E t \in Tasks : TokenFinish(t)
    \/ \E t \in Tasks : GameFetch(t)
    \/ \E t \in Tasks : GameLiquidity(t)
    \/ \E t \in Tasks : GameSleep(t)
    \/ \E t \in Tasks : GameUnpause(t)
    \/ \E t \in Tasks : GameFinish(t)

Spec == Init /\ [][Next]_vars

\* One token creation batch over one company: the poll loop of one job, with
\* every status reply possible on every attempt.
NextPoll ==
    \/ StartTask("token", 1)
    \/ \E t \in Tasks : TokenCount(t, {1})
    \/ \E t \in Tasks : TokenNext(t)
    \/ \E t \in Tasks : TokenPoll(t, MaxRetries, 0)
    \/ \E t \in Tasks : TokenSleep(t)
    \/ \E t \in Tasks : TokenAfter(t)
    \/ \E t \in Tasks : TokenFinish(t)

SpecPoll == Init /\ [][NextPoll]_vars

\* The batches together with the calls made outside them, in any order: two
\* Start* calls, at most one company, a status reply on the first attempt or
\* pending throughout.
NextApi ==
    \/ StartTask("token", 2)
    \/ StartTask("game", 2)
    \/ \E t \in Tasks : TokenCount(t, 0..1)
    \/ \E t \in Tasks : TokenNext(t)
    \/ \E t \in Tasks : TokenPoll(t, 1, 0)
    \/ \E t \in Tasks : TokenSleep(t)
    \/ \E t \in Tasks : TokenAfter(t)
    \/ \E t \in Tasks : TokenFinish(t)
    \/ \E t \in Tasks : GameFetch(t)
    \/ \E t \in Tasks : GameLiquidity(t)
    \/ \E t \in Tasks : GameSleep(t)
    \/ \E t \in Tasks : GameUnpause(t)
    \/ \E t \in Tasks : GameFinish(t)
    \/ CallInitialize
    \/ Shutdown
    \/ CallIsTaskRunning
    \/ CallGetMerchantTokens
    \/ CallCreateToken
    \/ CallGetTokenCreationStatus
    \/ CallCreateLiquidity
    \/ CallCreateLiquidityPool

SpecApi == Init /\ [][NextApi]_vars

\* Threads calling Initialize, Shutdown, MakeHttpRequest (through any of the
\* API functions, in a batch or not) and CreateLiquidityPool, in any order.
NextInit ==
    \/ \E th \in Threads : Begin(th)
    \/ \E th \in Threads : InitializeLock(th)
    \/ \E th \in Threads : InitializeCheck(th)
    \/ \E th \in Threads : InitializeGlobal(th)
    \/ \E th \in Threads : InitializeSet(th)
    \/ \E th \in Threads : ShutdownLock(th)
    \/ \E th \in Threads : ShutdownCheck(th)
    \/ \E th \in Threads : ShutdownCleanup(th)
    \/ \E th \in Threads : ShutdownSet(th)
    \/ \E th \in Threads : HttpCheck(th)
    \/ \E th \in Threads : HttpHandle(th)
    \/ \E th \in Threads : HttpPerform(th)
    \/ \E th \in Threads : PoolHandle(th)
    \/ \E th \in Threads : PoolPerform(th)

SpecInit == Init /\ [][NextInit]_vars

\* One step of background thread t, whichever lambda it runs.
TaskStep(t) ==
    \/ TokenCount(t, 0..MaxCompanies)
    \/ TokenNext(t)
    \/ TokenPoll(t, 1, 1)
    \/ TokenSleep(t)
    \/ TokenAfter(t)
    \/ TokenFinish(t)
    \/ GameFetch(t)
    \/ GameLiquidity(t)
    \/ GameSleep(t)
    \/ GameUnpause(t)
    \/ GameFinish(t)

NextLive ==
    \/ StartTask("token", 2)
    \/ StartTask("game", 2)
    \/ \E t \in Tasks : TaskStep(t)

\* A launched thread keeps being scheduled, a sleep ends, and a request
\* returns (CURLOPT_TIMEOUT): a thread that can take a step takes it.
SpecLive == Init /\ [][NextLive]_vars /\ \A t \in Tasks : WF_vars(TaskStep(t))

(***************************************************************************)
(* Properties.                                                             *)
(***************************************************************************)

\* Thread t is between its gate acquisition and its own reset of the flag.
Active(t) == pc[t] \notin {"idle", "done"}

\* Thread t's lambda is over: it returned, or the process was terminated in it.
TaskEnded(t) == pc[t] \in {"done", "crashed"}

TokenTask(t) == kind[t] = "token" /\ pc[t] # "idle"

ReportsOf(t, c) == SelectSeq(obs[t].reports, LAMBDA r : r.c = c)

Reported(t, c, o) == \E i \in 1..Len(obs[t].reports) : obs[t].reports[i] = [c |-> c, o |-> o]

\* The poll loop of company c's job is over (or was never entered).
JobOver(t, c) ==
    \/ c < loc[t].processed
    \/ c = loc[t].processed /\ pc[t] \in {"after", "next", "exit", "done"}

\* C1: under any interleaving of Start* calls, at most one background task
\* (of either kind) is between its gate acquisition and its own reset.
C1_AtMostOneTask == Cardinality({t \in Tasks : Active(t)}) <= 1

\* A task body is executing batch steps while a concurrent Start* was refused.
C1_Witness ==
    \E t \in Tasks : pc[t] \in {"poll", "liq"} /\ refused >= 1 /\ lastRet = FALSE

\* C2: a Start* call returns true exactly when no task holds the gate: of two
\* calls in immediate succession only the first returns true, every further
\* call returns false until the running task has reset the flag, and the first
\* call after that reset returns true again.
C2_TrueExactlyOnce ==
    [][calls' = calls + 1 => (lastRet' = (\A t \in Tasks : ~Active(t)))]_vars

\* Three calls: granted, refused, and granted again after the task's reset.
C2_Witness == calls = 3 /\ refused = 1 /\ lastRet = TRUE

\* C3: every exit path of either batch resets the running flag exactly once;
\* no task ends with _task_running still true.
C3_ResetOnEveryExit ==
    \A t \in Tasks :
        TaskEnded(t) =>
            /\ obs[t].resets = 1
            /\ (\A u \in Tasks : pc[u] \in {"idle", "done", "crashed"}) => ~task_running

\* C4: a Start* call made while a task is active returns false, leaves the
\* flag true, launches no thread and changes nothing of the running batch
\* (no HTTP request, no report, no local of the task).
C4_RefusedNoSideEffects ==
    [][(calls' = calls + 1 /\ \E t \in Tasks : Active(t)) =>
          /\ lastRet' = FALSE
          /\ task_running /\ task_running'
          /\ UNCHANGED <<pc, kind, loc, obs>>]_vars

\* A call was refused while the batch was mid-job, after HTTP requests.
C4_Witness ==
    /\ lastRet = FALSE /\ refused = 2
    /\ \E t \in Tasks : pc[t] = "sleep" /\ obs[t].http >= 2

\* C5: for one job, gave-up is reported if and only if the status source
\* reported pending on all attempts 1..60.
C5_GaveUpIffAllPending ==
    \A t \in Tasks : \A c \in Companies :
        (TokenTask(t) /\ JobOver(t, c) /\ pc[t] # "after") =>
            (Reported(t, c, "gaveup") <=>
                (obs[t].npend[c] = MaxRetries /\ obs[t].term[c] = NoneYet))

\* C6: for every N in 1..60, success is reported after at most N fetches if
\* and only if the source reported success on or before attempt N with
\* pending on every earlier attempt; never after any other first reply.
C6_SuccessIffSourceSuccess ==
    \A t \in Tasks : \A c \in Companies :
        (TokenTask(t) /\ (JobOver(t, c) \/ (c = loc[t].processed /\ pc[t] = "crashed"))) =>
            \A N \in 1..MaxRetries :
                (Reported(t, c, "success") /\ obs[t].fetches[c] <= N)
                    <=> (obs[t].term[c] = SuccessBody /\ obs[t].npend[c] + 1 <= N)

\* Success observed on attempt 60 itself.
C6_Witness ==
    \E t \in Tasks :
        /\ pc[t] = "done" /\ obs[t].fetches[1] = MaxRetries
        /\ obs[t].reports = <<[c |-> 1, o |-> "success"]>>

\* C7: a status fetch that returns the empty string on attempt k ends the poll
\* loop at attempt k with a failure: k fetches, no sleep after it, no further
\* fetch; on the first fetch the attempt count is 1.
C7_TransportFailureNotRetried ==
    \A t \in Tasks : \A c \in Companies :
        (TokenTask(t) /\ obs[t].term[c] = NoBody) =>
            /\ obs[t].fetches[c] = obs[t].npend[c] + 1
            /\ obs[t].sleeps[c] = obs[t].npend[c]
            /\ Reported(t, c, "failure")
            /\ ~(c = loc[t].processed /\ pc[t] \in {"poll", "sleep"})
            /\ (c = loc[t].processed => loc[t].retry_count = obs[t].npend[c] + 1)
            /\ (obs[t].npend[c] = 0 => obs[t].fetches[c] = 1)

\* The first fetch failed and the batch finished: one fetch, no sleep.
C7_Witness ==
    \E t \in Tasks :
        /\ pc[t] = "done" /\ obs[t].term[1] = NoBody
        /\ obs[t].fetches[1] = 1 /\ obs[t].sleeps[1] = 0

\* C8: after a token creation batch over a non-empty company list has
\* finished, there are as many recorded outcomes as companies and every
\* company has exactly one, in {success, failure, gaveup}.
C8_OneOutcomePerCompany ==
    \A t \in Tasks :
        (kind[t] = "token" /\ pc[t] = "done" /\ loc[t].company_count > 0) =>
            /\ Len(obs[t].reports) = loc[t].company_count
            /\ \A c \in 1..loc[t].company_count :
                /\ Len(ReportsOf(t, c)) = 1
                /\ ReportsOf(t, c)[1].o \in {"success", "failure", "gaveup"}

IsPrefix(s, r) == Len(s) <= Len(r) /\ SubSeq(r, 1, Len(s)) = s

\* C9: an empty job id is recorded as a failure with no status fetch and the
\* batch goes on with the next company; a failure or gave-up report never
\* ends the batch; a step only adds reports, and only for the company being
\* processed; a finished batch has submitted CreateToken for every company.
C9_FailureIsolated ==
    [][\A t \in Tasks :
          /\ (pc[t] \notin {"idle", "done"} /\ kind[t] = "token") =>
                /\ IsPrefix(obs[t].reports, obs'[t].reports)
                /\ \A i \in (Len(obs[t].reports) + 1)..Len(obs'[t].reports) :
                      /\ obs'[t].reports[i].c = loc'[t].processed
                      /\ obs'[t].reports[i].o \in {"failure", "gaveup"} =>
                            pc'[t] \in {"after", "next"}
          /\ (kind'[t] = "token" /\ pc'[t] # "idle") =>
                \A c \in Companies :
                    (c \in {obs'[t].submitted[i] : i \in 1..Len(obs'[t].submitted)}
                        /\ obs'[t].handle[c] = "" /\ JobOver(t, c)') =>
                            /\ obs'[t].fetches[c] = 0
                            /\ ReportsOf(t, c)' = <<[c |-> c, o |-> "failure"]>>
          /\ (kind'[t] = "token" /\ pc'[t] = "done") =>
                obs'[t].submitted = [i \in 1..loc'[t].company_count |-> i]
      ]_vars

\* Company 1 got an empty job id, company 2 was still polled to success.
C9_Witness ==
    \E t \in Tasks :
        /\ pc[t] = "done" /\ obs[t].handle[1] = "" /\ obs[t].fetches[1] = 0
        /\ obs[t].reports = <<[c |-> 1, o |-> "failure"], [c |-> 2, o |-> "success"]>>

\* C10: the number of status fetches of a job is exact: 0 for an empty job id,
\* k when the first reply that is not pending comes on attempt k, 60 when all
\* replies are pending, never more than 60.  Scenario: A gets "j1" and succeeds
\* on attempt 3, B gets an empty job id: A success, B failure, flag reset,
\* 3 fetches for A and 0 for B.
C10_ExactFetchCount ==
    \A t \in Tasks :
        TokenTask(t) =>
            /\ \A c \in Companies :
                /\ obs[t].fetches[c] <= MaxRetries
                /\ obs[t].fetches[c] =
                      obs[t].npend[c] + (IF obs[t].term[c] = NoneYet THEN 0 ELSE 1)
                /\ obs[t].handle[c] = "" => obs[t].fetches[c] = 0
                /\ (JobOver(t, c) /\ obs[t].handle[c] # "" /\ obs[t].term[c] = NoneYet) =>
                      obs[t].fetches[c] = MaxRetries
            /\ (/\ pc[t] = "done" /\ loc[t].company_count = 2
                /\ obs[t].handle[1] = "j1" /\ obs[t].handle[2] = ""
                /\ obs[t].term[1] = SuccessBody /\ obs[t].npend[1] = 2) =>
                  /\ obs[t].reports = <<[c |-> 1, o |-> "success"], [c |-> 2, o |-> "failure"]>>
                  /\ obs[t].fetches[1] = 3 /\ obs[t].fetches[2] = 0
                  /\ ~task_running

\* The two-entity scenario has run to its end.
C10_Witness ==
    \E t \in Tasks :
        /\ pc[t] = "done" /\ loc[t].company_count = 2
        /\ obs[t].handle[1] = "j1" /\ obs[t].handle[2] = ""
        /\ obs[t].term[1] = SuccessBody /\ obs[t].npend[1] = 2
        /\ obs[t].fetches[1] = 3 /\ obs[t].fetches[2] = 0

\* The game initialization lambda got a token list and the list was empty.
EmptyListBatch(t) ==
    kind[t] = "game" /\ pc[t] \notin {"idle", "start", "crashed"} /\ loc[t].tokens = <<>>

ExitPoints == {"start", "next", "exit", "unpaused"}

\* C12: the running flag goes from true to false only on the step by which
\* the active task ends (completion or early exit); a refused Start* and the
\* other public functions (IsTaskRunning, Initialize, Shutdown,
\* GetMerchantTokens, CreateToken, CreateLiquidity, CreateLiquidityPool,
\* GetTokenCreationStatus) leave the flag as it is; and the flag is set for as
\* long as a task body is executing batch steps.
C12_ResetOnlyByActiveTask ==
    [][/\ (task_running /\ ~task_running') =>
             \E t \in Tasks :
                /\ Active(t) /\ pc[t] \in ExitPoints /\ pc'[t] = "done"
                /\ obs'[t].resets = obs[t].resets + 1
                /\ \A u \in Tasks \ {t} : pc'[u] = pc[u]
                /\ api' = api /\ calls' = calls
       /\ (api' # api \/ refused' # refused) => task_running' = task_running
       /\ \A t \in Tasks : Active(t)' => task_running'
      ]_vars

\* A task has reset the flag after a Start* was refused and after calls of the
\* other public functions, the latest of them a Shutdown.
C12_Witness ==
    \E t \in Tasks :
        /\ pc[t] = "done" /\ obs[t].resets = 1 /\ obs[t].http >= 1
        /\ ~task_running /\ refused >= 1 /\ api.op = "Shutdown"

\* C13: the companies are processed one at a time in enumeration order:
\* CreateToken has been submitted for exactly the companies 1..processed, once
\* each and in that order (for all of them when the batch completes); it is
\* submitted for a company only when every earlier company's job is over and
\* has its outcome line; and status requests are made only for the company
\* submitted last.
C13_OneCompanyAtATime ==
    [][\A t \in Tasks :
         (TokenTask(t))' =>
            /\ obs'[t].submitted = [i \in 1..loc'[t].processed |-> i]
            /\ loc'[t].processed <= loc'[t].company_count
            /\ pc'[t] = "done" => loc'[t].processed = loc'[t].company_count
            /\ (Active(t) /\ Len(obs'[t].submitted) > Len(obs[t].submitted)) =>
                  /\ pc[t] = "next"
                  /\ Len(obs'[t].submitted) = Len(obs[t].submitted) + 1
                  /\ \A d \in 1..Len(obs[t].submitted) :
                        JobOver(t, d) /\ ReportsOf(t, d) # <<>>
            /\ \A c \in Companies :
                  (Active(t) /\ obs'[t].fetches[c] # obs[t].fetches[c]) =>
                      /\ c = Len(obs[t].submitted)
                      /\ obs'[t].submitted = obs[t].submitted
      ]_vars

\* A batch over two companies has completed after polling both jobs.
C13_Witness ==
    \E t \in Tasks :
        /\ kind[t] = "token" /\ pc[t] = "done" /\ loc[t].company_count = 2
        /\ obs[t].submitted = <<1, 2>>
        /\ obs[t].fetches[1] >= 2 /\ obs[t].fetches[2] >= 1

\* The response is a parsed object with a string jobId member.
HasStringJobId(b) == IsObject(b) /\ HasMember(b, "jobId") /\ IsString(b.m.jobId)

C15_TrueOnlyOnSuccessFlag ==
    api.op = "CreateLiquidity" =>
        /\ ~api.fault
        /\ api.ret.b = (api.body = Obj([success |-> Bool(TRUE)]))

\* The merchant_address argument of the calls of GetMerchantTokens.
QueryAddress == "0xM"

\* An array entry with all ten fields of the right type.
WellFormed(e) == StringsOk(e) /\ NumbersOk(e)

\* The addresses of the well-formed entries of the queried merchant, in order.
MatchingAddresses(a) ==
    LET kept == SelectSeq(a, LAMBDA e : WellFormed(e) /\ e.m.merchantAddress.s = QueryAddress)
    IN [i \in 1..Len(kept) |-> kept[i].m.address.s]

\* C16: for an array response GetMerchantTokens returns: the records of the
\* well-formed entries whose merchantAddress is the queried one are returned
\* in input order, entries after a malformed one included, and no record is
\* returned for a malformed entry.
C16_MalformedEntriesSkipped ==
    (api.op = "GetMerchantTokens" /\ IsArray(api.body)) =>
        LET a == api.body.a
            expected == MatchingAddresses(a)
        IN
        /\ ~api.fault
        /\ SelectSeq(api.ret.q, LAMBDA x : \E i \in 1..Len(expected) : expected[i] = x)
              = expected
        /\ \A i \in 1..Len(a) :
              ~WellFormed(a[i]) =>
                  \A j \in 1..Len(api.ret.q) : api.ret.q[j] # a[i].m.address.s

GameTask(t) == kind[t] = "game" /\ pc[t] # "idle"

\* C17 as stated: a liquidity batch that has ended has invoked the unpause
\* command exactly once.
C17_UnpauseExactlyOnce ==
    \A t \in Tasks : (GameTask(t) /\ pc[t] = "done") => obs[t].unpause = 1

\* C17, amended: a liquidity batch with a non-empty token list invokes the
\* unpause command exactly once, after the last CreateLiquidity call has
\* returned and before the gate is released, whatever the CreateLiquidity
\* calls returned; a batch with an empty token list does not invoke it.
C17_UnpauseOnceAfterLastToken ==
    \A t \in Tasks :
        GameTask(t) =>
            /\ obs[t].unpause <= 1
            /\ obs[t].unpause = 1 =>
                  /\ loc[t].tokens # <<>>
                  /\ Len(obs[t].liquidity) = Len(loc[t].tokens)
                  /\ pc[t] \in {"unpaused", "done"}
            /\ pc[t] = "unpaused" =>
                  obs[t].unpause = 1 /\ obs[t].resets = 0 /\ task_running
            /\ pc[t] = "done" =>
                  /\ obs[t].unpause = (IF loc[t].tokens = <<>> THEN 0 ELSE 1)
                  /\ obs[t].resets = 1

\* A batch over two tokens has ended with both CreateLiquidity calls false.
C17_Witness ==
    \E t \in Tasks :
        /\ GameTask(t) /\ pc[t] = "done" /\ Len(loc[t].tokens) = 2
        /\ \A i \in 1..2 : ~obs[t].liquidity[i].ok
        /\ obs[t].unpause = 1

\* Status replies with content that the poll loop cannot decode.
UndecodableBodies == {Garbage, NoStatusBody, NonStringStatusBody, SuccessNoDataBody}

\* C18: a non-empty status response that cannot be decoded is treated like a
\* transport failure: the company is recorded as failed on that attempt, the
\* task goes on (no error leaves it) and the batch ends with the gate released.
C18_UndecodableIsFailure ==
    \A t \in Tasks : \A c \in Companies :
        (TokenTask(t) /\ obs[t].term[c] \in UndecodableBodies) =>
            /\ pc[t] # "crashed"
            /\ ReportsOf(t, c) = <<[c |-> c, o |-> "failure"]>>
            /\ obs[t].fetches[c] = obs[t].npend[c] + 1
            /\ pc[t] = "done" => ~task_running

\* Decoded status replies whose tag is neither "success" nor "pending".
OtherStatusBodies == {FailedBody, UnknownTagBody}

\* C19: a decoded status that is neither success nor pending (an explicit
\* failure, an unknown tag) is terminal: the poll loop stops on the attempt
\* that received it and reports a failure for the company, with no sleep after
\* it and no further status fetch.
C19_OtherStatusIsTerminal ==
    \A t \in Tasks : \A c \in Companies :
        (TokenTask(t) /\ obs[t].term[c] \in OtherStatusBodies) =>
            /\ pc[t] # "crashed"
            /\ obs[t].fetches[c] = obs[t].npend[c] + 1
            /\ obs[t].sleeps[c] = obs[t].npend[c]
            /\ Reported(t, c, "failure") /\ ~Reported(t, c, "success")
            /\ ~(c = loc[t].processed /\ pc[t] \in {"poll", "sleep"})
            /\ (c = loc[t].processed => loc[t].retry_count = obs[t].fetches[c])

\* The batch has finished after two pending replies and an unknown status tag:
\* three fetches, two sleeps.
C19_Witness ==
    \E t \in Tasks :
        /\ pc[t] = "done" /\ obs[t].term[1] = UnknownTagBody
        /\ obs[t].npend[1] = 2 /\ obs[t].fetches[1] = 3 /\ obs[t].sleeps[1] = 2

\* C20: in a liquidity batch with a non-empty token list CreateLiquidity is
\* called for the listed tokens in list order, each with its own address, once
\* per token by the time the loop is left; a false result neither stops the
\* loop nor skips a token; and every call is followed by the fixed delay before
\* the next call is made.
C20_OneCallPerTokenInOrder ==
    \A t \in Tasks :
        (GameTask(t) /\ loc[t].tokens # <<>>) =>
            /\ Len(obs[t].liquidity) <= Len(loc[t].tokens)
            /\ \A i \in 1..Len(obs[t].liquidity) :
                  obs[t].liquidity[i].address = loc[t].tokens[i]
            /\ pc[t] \in {"unpaused", "done"} =>
                  Len(obs[t].liquidity) = Len(loc[t].tokens)
            /\ pc[t] = "liqsleep" => obs[t].delays = Len(obs[t].liquidity) - 1
            /\ pc[t] # "liqsleep" => obs[t].delays = Len(obs[t].liquidity)
            /\ pc[t] = "liq" => Len(obs[t].liquidity) = loc[t].processed

\* A batch over two tokens has ended: the first call false, the second true.
C20_Witness ==
    \E t \in Tasks :
        /\ GameTask(t) /\ pc[t] = "done" /\ loc[t].tokens = <<"0xA1", "0xA2">>
        /\ obs[t].liquidity = <<[address |-> "0xA1", ok |-> FALSE],
                                [address |-> "0xA2", ok |-> TRUE]>>
        /\ obs[t].delays = 2

\* A list response without a token array: a transport failure, a body that
\* cannot be parsed, a parsed body that is not an array.
NoArray(b) == b = NoBody \/ b = Garbage \/ ~IsArray(b)

\* C21: GetMerchantTokens returns the empty sequence on a transport failure,
\* on a body that cannot be parsed and on a parsed body that is not an array;
\* a liquidity batch whose list request is answered so takes the empty-input
\* path: no CreateLiquidity call, no unpause command, gate released.
C21_FailedListIsEmptyList ==
    /\ (api.op = "GetMerchantTokens" /\ NoArray(api.body)) =>
          (~api.fault /\ api.ret.q = <<>>)
    /\ \A t \in Tasks :
          (GameTask(t) /\ obs[t].list # NoneYet /\ NoArray(obs[t].list)) =>
              /\ pc[t] = "done"
              /\ loc[t].tokens = <<>>
              /\ obs[t].liquidity = <<>> /\ obs[t].http = 1
              /\ obs[t].unpause = 0
              /\ obs[t].resets = 1 /\ ~task_running

\* A liquidity batch has ended after its list request was answered with an
\* object, and a direct call has returned for a transport failure.
C21_Witness ==
    /\ api.op = "GetMerchantTokens" /\ api.body = NoBody /\ api.ret.q = <<>>
    /\ \E t \in Tasks :
          /\ GameTask(t) /\ pc[t] = "done"
          /\ obs[t].list = Obj([error |-> Str("denied")])

RECURSIVE SumFetches(_, _)
SumFetches(t, n) == IF n = 0 THEN 0 ELSE obs[t].fetches[n] + SumFetches(t, n - 1)

\* The requests of a batch: one CreateToken and at most 60 status fetches per
\* company, or one list request and one CreateLiquidity per token; a batch
\* that has ended after its first step has handled every item.
BoundedWork ==
    \A t \in Tasks :
        /\ TokenTask(t) =>
              /\ \A c \in Companies : obs[t].fetches[c] <= MaxRetries
              /\ Len(obs[t].submitted) <= loc[t].company_count
              /\ obs[t].http = Len(obs[t].submitted) + SumFetches(t, MaxCompanies)
              /\ pc[t] = "done" => Len(obs[t].submitted) = loc[t].company_count
        /\ GameTask(t) =>
              /\ obs[t].http <= 1 + Len(loc[t].tokens)
              /\ pc[t] # "crashed" =>
                    obs[t].http = Len(obs[t].liquidity) + (IF pc[t] = "start" THEN 0 ELSE 1)
              /\ pc[t] = "done" => Len(obs[t].liquidity) = Len(loc[t].tokens)

\* C22: every started batch terminates unless an undecodable response ends
\* the process: whenever _task_running is true it eventually is false again;
\* until then the batch makes at most one CreateToken and 60 status fetches
\* per company, or one list request and one CreateLiquidity per token, and it
\* ends only after it has handled every item.
C22_BatchTerminates ==
    /\ []BoundedWork
    /\ [](task_running => <>(~task_running \/ Terminated))

\* A token batch has ended after the 60 status fetches of a job.
C22_Witness ==
    \E t \in Tasks :
        /\ TokenTask(t) /\ pc[t] = "done" /\ ~task_running
        /\ obs[t].fetches[1] = MaxRetries

\* A task has been started and has not finished.
SomeTaskActive == \E t \in Tasks : Active(t)

\* C23: IsTaskRunning reflects task activity exactly: it is false initially,
\* true in every state from the acquisition of the gate by a Start* call to
\* the end of the task (the state before the thread's first step included),
\* false in every state in which no task was started or the last one has
\* finished; and a call of it returns that value.
C23_QueryReflectsActivity ==
    [][/\ IsTaskRunning = SomeTaskActive
       /\ (IsTaskRunning = SomeTaskActive)'
       /\ (api' # api /\ api'.op = "IsTaskRunning") => (api'.ret.b = SomeTaskActive')
       /\ (calls' = calls + 1 /\ lastRet') => IsTaskRunning'
      ]_vars

\* The query has answered true while the launched thread has not yet taken
\* its first step.
C23_Witness ==
    /\ api.op = "IsTaskRunning" /\ api.ret.b
    /\ \E t \in Tasks : pc[t] = "start"
    /\ calls = 1

\* The token creation lambda has counted the companies and found none.
EmptyCompanyBatch(t) == TokenTask(t) /\ pc[t] # "start" /\ loc[t].company_count = 0

\* C24: a token creation batch started when there are no companies (its
\* Start* call returned true) ends on the early-exit path: no CreateToken, no
\* status request, no HTTP call at all, no outcome line, the no-companies
\* notice, the flag reset once; and the next Start* call is granted.
C24_EmptyCompanyBatch ==
    [][/\ \A t \in Tasks :
            (EmptyCompanyBatch(t))' =>
                /\ pc'[t] = "done"
                /\ obs'[t].http = 0
                /\ obs'[t].submitted = <<>>
                /\ \A c \in Companies : obs'[t].fetches[c] = 0 /\ obs'[t].sleeps[c] = 0
                /\ obs'[t].reports = <<>>
                /\ obs'[t].notice = "no_companies"
                /\ obs'[t].resets = 1
                /\ ~task_running'
       /\ \A t \in Tasks :
            (pc[t] # "start" /\ pc'[t] = "start") => (lastRet' /\ task_running')
       /\ ((\E t \in Tasks : EmptyCompanyBatch(t)) /\ calls' = calls + 1) => lastRet'
      ]_vars

\* The one Start* call made was granted and its batch over no companies has
\* ended.
C24_Witness ==
    /\ calls = 1 /\ lastRet
    /\ \E t \in Tasks :
          EmptyCompanyBatch(t) /\ pc[t] = "done" /\ obs[t].http = 0 /\ obs[t].resets = 1

\* Positions at which a thread holds a request handle: between curl_easy_init
\* and the return of curl_easy_perform.
InFlight == {"http_perform", "pool_perform"}

\* C25: an outbound HTTP request is performed only while the HTTP library is
\* initialized: _initialized is true in every state in which a thread has a
\* request in flight, whatever Initialize, Shutdown, MakeHttpRequest and
\* CreateLiquidityPool calls the other threads make.
C25_RequestsOnlyWhileInitialized ==
    \A th \in Threads : lib.pc[th] \in InFlight => initialized

\* The positions of a thread inside Initialize with the lock held.
InsideInitialize == {"init_check", "init_global", "init_set"}

\* C26: under any interleaving of Initialize calls (direct or through
\* MakeHttpRequest) and Shutdown calls on several threads, curl_global_init
\* and curl_global_cleanup strictly alternate, starting with an
\* initialization: the library is never initialized twice without a cleanup
\* in between and never cleaned up when not initialized; whenever the lock is
\* free _initialized tells whether the library is initialized; and Initialize
\* returns true exactly when the library is initialized on its return.
C26_InitializeCleanupAlternate ==
    [][/\ lib'.global \in {0, 1}
       /\ lib'.global # lib.global =>
             \E th \in Threads :
                /\ lib.mutex = th
                /\ \A u \in Threads \ {th} : lib.pc[u] \notin InsideInitialize
                /\ IF lib'.global > lib.global
                   THEN lib.pc[th] = "init_global" /\ lib.global = 0 /\ ~initialized
                   ELSE lib.pc[th] = "shut_cleanup" /\ lib.global = 1 /\ initialized
       /\ lib'.mutex = 0 => (initialized' = (lib'.global = 1))
       /\ \A th \in Threads :
             (lib.pc[th] \in InsideInitialize /\ lib'.pc[th] \notin InsideInitialize) =>
                 /\ lib'.ret[th] = initialized'
                 /\ lib'.ret[th] = (lib'.global = 1)
      ]_vars

\* Two concurrent Initialize calls, one of them through MakeHttpRequest: one
\* thread is about to call curl_global_init, the other waits for the lock,
\* after an earlier initialization was shut down again.
C26_Witness ==
    \E th, u \in Threads :
        /\ lib.mutex = th /\ lib.pc[th] = "init_global" /\ lib.op[th] = "MakeHttpRequest"
        /\ lib.pc[u] = "init_lock" /\ lib.op[u] = "Initialize" /\ lib.ret[u]
        /\ lib.global = 0

====
